---- MODULE Spec2Model ----
(***************************************************************************)
(* Model of src/main.py: the bootstrap module of the Todo API.             *)
(*                                                                         *)
(* The module is executed top to bottom when the hosting server imports    *)
(* it (application object, CORS middleware, the two liveness endpoints,    *)
(* router registration).  The hosting server then drives the lifespan      *)
(* context manager: the part before `yield` runs before the first request  *)
(* is accepted, the part after `yield` runs after the server has stopped   *)
(* accepting requests.                                                     *)
(***************************************************************************)
EXTENDS Integers, Sequences, FiniteSets, TLC

VARIABLES
    settings,       \* app.config.settings: the configuration record
    phase,          \* where the process is in its lifetime
    app,            \* the FastAPI application object (line 69)
    cors_origins,   \* the module global of line 77
    lpc,            \* position inside the lifespan coroutine (lines 40-65)
    dbInit,         \* state of the create_db_and_tables attempt
    dbClose,        \* state of the close_db attempt
    handle,         \* the process-wide database handle of app.database
    createCalls,    \* number of invocations of create_db_and_tables
    closeCalls,     \* number of invocations of close_db
    inflight,       \* requests accepted and not yet answered
    accepted,       \* number of requests accepted so far
    handled,        \* number of requests answered so far
    clock,          \* the wall clock read by datetime.utcnow()
    lastResponse    \* the most recent HTTP response sent

vars == <<settings, phase, app, cors_origins, lpc, dbInit, dbClose, handle,
          createCalls, closeCalls, inflight, accepted, handled, clock,
          lastResponse>>

(***************************************************************************)
(* Bounds of the model.                                                    *)
(***************************************************************************)
MaxRequests == 2
MaxInFlight == 1
MaxCalls == 2

(***************************************************************************)
(* The configuration record (app.config.settings).                         *)
(***************************************************************************)
AppNames == {"Todo API", "Todo"}
AppVersions == {"1.0.0", "2.0.0"}
OriginLists == {<<>>, <<"http://a">>, <<"http://b", "http://a">>, <<"*">>}

Settings == [APP_NAME : AppNames, APP_VERSION : AppVersions,
             CORS_ORIGINS : OriginLists]

get_cors_origins_list(s) == s.CORS_ORIGINS

\* app.database: what a successful create_db_and_tables / close_db does to
\* the process-wide handle.
create_db_and_tables(h) == "open"

close_db(h) == IF h = "open" THEN "closed" ELSE h

NoApp == [title |-> "", version |-> "", lifespan |-> FALSE,
          middleware |-> <<>>, routers |-> {}]

(***************************************************************************)
(* HTTP requests.  A header that is not sent is NoHeader.                  *)
(***************************************************************************)
NoHeader == "<absent>"
Origins == {"http://a", "http://evil"}
RequestHeaders == {"x-token"}

GetRequests == [method : {"GET"}, path : {"/", "/health"},
                origin : {NoHeader, "http://a"},
                acrm : {NoHeader}, acrh : {NoHeader}]

PreflightRequests == [method : {"OPTIONS"}, path : {"/"},
                      origin : Origins,
                      acrm : {"POST"}, acrh : RequestHeaders \cup {NoHeader}]

Requests == GetRequests \cup PreflightRequests

NoRequest == [method |-> "", path |-> "", origin |-> NoHeader,
              acrm |-> NoHeader, acrh |-> NoHeader]

NoHeaders == [h \in {} |-> ""]

NoBody == [b \in {} |-> ""]

NoResponse == [request |-> NoRequest, status |-> 0, headers |-> NoHeaders,
               body |-> NoBody]

(***************************************************************************)
(* CORS middleware, as configured by lines 80-86.                          *)
(***************************************************************************)
ALL_METHODS == {"DELETE", "GET", "HEAD", "OPTIONS", "PATCH", "POST", "PUT"}

\* Variant of ConfigureCORS: the origin list is replaced by a hard-coded wildcard.
WildcardCORS(origins) ==
    [allow_origins |-> <<"*">>, allow_credentials |-> FALSE,
     allow_methods |-> <<"*">>, allow_headers |-> <<"*">>]

\* Variant of ConfigureCORS: allow_credentials is left at its default.
NoCredentialsCORS(origins) ==
    [allow_origins |-> origins, allow_credentials |-> FALSE,
     allow_methods |-> <<"*">>, allow_headers |-> <<"*">>]

ConfigureCORS(origins) ==
    [allow_origins |-> origins, allow_credentials |-> TRUE,
     allow_methods |-> <<"*">>, allow_headers |-> <<"*">>]

Elems(seq) == {seq[i] : i \in 1..Len(seq)}

allow_all_origins(mw) == "*" \in Elems(mw.allow_origins)

allow_all_headers(mw) == "*" \in Elems(mw.allow_headers)

allowed_methods(mw) ==
    IF "*" \in Elems(mw.allow_methods) THEN ALL_METHODS
    ELSE Elems(mw.allow_methods)

is_allowed_origin(mw, origin) ==
    allow_all_origins(mw) \/ origin \in Elems(mw.allow_origins)

preflight_explicit_allow_origin(mw) ==
    ~allow_all_origins(mw) \/ mw.allow_credentials

\* The response to OPTIONS with Origin and Access-Control-Request-Method.
preflight_response(mw, req) ==
    LET originOk == is_allowed_origin(mw, req.origin)
        methodOk == req.acrm \in allowed_methods(mw)
        hOrigin ==
            IF preflight_explicit_allow_origin(mw)
            THEN (IF originOk
                  THEN "Access-Control-Allow-Origin" :> req.origin
                  ELSE NoHeaders)
            ELSE "Access-Control-Allow-Origin" :> "*"
        hVary ==
            IF preflight_explicit_allow_origin(mw)
            THEN "Vary" :> "Origin" ELSE NoHeaders
        hMethods == "Access-Control-Allow-Methods" :> allowed_methods(mw)
        hHeaders ==
            IF allow_all_headers(mw) /\ req.acrh # NoHeader
            THEN "Access-Control-Allow-Headers" :> req.acrh
            ELSE NoHeaders
        hCred ==
            IF mw.allow_credentials
            THEN "Access-Control-Allow-Credentials" :> "true"
            ELSE NoHeaders
    IN  [request |-> req,
         status |-> IF originOk /\ methodOk THEN 200 ELSE 400,
         headers |-> hOrigin @@ hVary @@ hMethods @@ hHeaders @@ hCred,
         body |-> NoBody]

\* The headers added to the response of a non-preflight request with Origin.
simple_headers(mw, req) ==
    LET hCred ==
            IF mw.allow_credentials
            THEN "Access-Control-Allow-Credentials" :> "true"
            ELSE NoHeaders
        hOrigin ==
            IF allow_all_origins(mw)
            THEN "Access-Control-Allow-Origin" :> "*"
            ELSE IF is_allowed_origin(mw, req.origin)
            THEN ("Access-Control-Allow-Origin" :> req.origin)
                 @@ ("Vary" :> "Origin")
            ELSE NoHeaders
    IN  hOrigin @@ hCred

(***************************************************************************)
(* The liveness endpoints (lines 89-122).                                  *)
(***************************************************************************)
isoformat(t) == <<"utc", t>>

\* Variant of root: the name and version fields are exchanged.
rootSwapped(s, t) ==
    [status |-> "healthy", app_name |-> s.APP_VERSION,
     version |-> s.APP_NAME, timestamp |-> isoformat(t),
     cors_origins |-> get_cors_origins_list(s)]

root(s, t) ==
    [status |-> "healthy", app_name |-> s.APP_NAME,
     version |-> s.APP_VERSION, timestamp |-> isoformat(t),
     cors_origins |-> get_cors_origins_list(s)]

\* Variant of health_check: the status reflects the database initialization.
health_checkProbe(t) ==
    [status |-> IF dbInit = "ok" THEN "healthy" ELSE "unhealthy",
     timestamp |-> isoformat(t)]

health_check(t) ==
    [status |-> "healthy", timestamp |-> isoformat(t)]

\* The application behind the middleware: route lookup and the handler.
Route(req, t) ==
    IF req.method = "GET" /\ req.path = "/"
    THEN [request |-> req, status |-> 200, headers |-> NoHeaders,
          body |-> root(settings, t)]
    ELSE IF req.method = "GET" /\ req.path = "/health"
    THEN [request |-> req, status |-> 200, headers |-> NoHeaders,
          body |-> health_check(t)]
    ELSE [request |-> req, status |-> 405, headers |-> NoHeaders,
          body |-> NoBody]

\* A request through the middleware stack of the application.
Respond(a, req, t) ==
    LET mw == a.middleware[1]
        inner == Route(req, t)
    IN  IF req.origin = NoHeader THEN inner
        ELSE IF req.method = "OPTIONS" /\ req.acrm # NoHeader
        THEN preflight_response(mw, req)
        ELSE [inner EXCEPT !.headers = simple_headers(mw, req) @@ @]

(***************************************************************************)
(* Initial state: the process has been started and app.config has built    *)
(* the settings record; main.py has not yet constructed the application.   *)
(***************************************************************************)
Init ==
    /\ settings \in Settings
    /\ phase = "configure"
    /\ app = NoApp
    /\ cors_origins = <<>>
    /\ lpc = "idle"
    /\ dbInit = "notstarted"
    /\ dbClose = "notstarted"
    /\ handle = "none"
    /\ createCalls = 0
    /\ closeCalls = 0
    /\ inflight = <<>>
    /\ accepted = 0
    /\ handled = 0
    /\ clock = 0
    /\ lastResponse = NoResponse

db == <<dbInit, dbClose, handle, createCalls, closeCalls>>
http == <<inflight, accepted, handled, clock, lastResponse>>

(***************************************************************************)
(* Module level of main.py (lines 68-134), executed at import.             *)
(***************************************************************************)
\* app = FastAPI(title=..., version=..., lifespan=lifespan)
ConstructApp ==
    /\ phase = "configure"
    /\ app' = [title |-> settings.APP_NAME, version |-> settings.APP_VERSION,
               lifespan |-> TRUE, middleware |-> <<>>, routers |-> {}]
    /\ phase' = "add_middleware"
    /\ UNCHANGED <<settings, cors_origins, lpc, db, http>>

\* cors_origins = settings.get_cors_origins_list(); app.add_middleware(...)
AddCORSMiddleware ==
    /\ phase = "add_middleware"
    /\ cors_origins' = get_cors_origins_list(settings)
    /\ app' = [app EXCEPT !.middleware = <<ConfigureCORS(cors_origins')>>]
    /\ phase' = "import_routes"
    /\ UNCHANGED <<settings, lpc, db, http>>

\* from app.routes import auth, tasks
ImportRoutes ==
    /\ phase = "import_routes"
    /\ \E outcome \in {"ok", "raise"} :
          phase' = IF outcome = "ok" THEN "include_auth" ELSE "route_error"
    /\ UNCHANGED <<settings, app, cors_origins, lpc, db, http>>

\* app.include_router(auth.router, prefix="/api/auth", ...)
IncludeAuthRouter ==
    /\ phase = "include_auth"
    /\ \E outcome \in {"ok", "raise"} :
          IF outcome = "ok"
          THEN /\ app' = [app EXCEPT !.routers = @ \cup {"/api/auth"}]
               /\ phase' = "include_tasks"
          ELSE /\ app' = app
               /\ phase' = "route_error"
    /\ UNCHANGED <<settings, cors_origins, lpc, db, http>>

\* app.include_router(tasks.router, prefix="/api/tasks", ...)
IncludeTasksRouter ==
    /\ phase = "include_tasks"
    /\ \E outcome \in {"ok", "raise"} :
          IF outcome = "ok"
          THEN /\ app' = [app EXCEPT !.routers = @ \cup {"/api/tasks"}]
               /\ phase' = "loaded"
          ELSE /\ app' = app
               /\ phase' = "route_error"
    /\ UNCHANGED <<settings, cors_origins, lpc, db, http>>

\* Variant of RouteLoadError: the handler logs and does not re-raise.
RouteLoadErrorSwallowed ==
    /\ phase = "route_error"
    /\ phase' = "loaded"
    /\ UNCHANGED <<settings, app, cors_origins, lpc, db, http>>

\* except Exception as e: logger.error(...); raise
RouteLoadError ==
    /\ phase = "route_error"
    /\ phase' = "aborted"
    /\ UNCHANGED <<settings, app, cors_origins, lpc, db, http>>

(***************************************************************************)
(* lifespan, before the yield (lines 48-57).                               *)
(***************************************************************************)
\* The server enters the lifespan context of the imported application.
ServerStartup ==
    /\ phase = "loaded"
    /\ app.lifespan
    /\ lpc = "idle"
    /\ phase' = "startup"
    /\ lpc' = "start"
    /\ UNCHANGED <<settings, app, cors_origins, db, http>>

\* try: await create_db_and_tables()      (the call is made)
CreateDbCall ==
    /\ lpc = "start"
    /\ createCalls < MaxCalls
    /\ lpc' = "awaiting_create"
    /\ dbInit' = "pending"
    /\ createCalls' = createCalls + 1
    /\ UNCHANGED <<settings, phase, app, cors_origins, dbClose, handle,
                   closeCalls, http>>

\* create_db_and_tables() returns
CreateDbReturn ==
    /\ lpc = "awaiting_create"
    /\ dbInit' = "ok"
    /\ handle' = create_db_and_tables(handle)
    /\ lpc' = "at_yield"
    /\ UNCHANGED <<settings, phase, app, cors_origins, dbClose, createCalls,
                   closeCalls, http>>

\* create_db_and_tables() raises
CreateDbRaise ==
    /\ lpc = "awaiting_create"
    /\ dbInit' = "failed"
    /\ lpc' = "except_create"
    /\ UNCHANGED <<settings, phase, app, cors_origins, dbClose, handle,
                   createCalls, closeCalls, http>>

\* Variant of StartupExcept: the handler re-raises, startup fails.
StartupExceptReraise ==
    /\ lpc = "except_create"
    /\ lpc' = "raised"
    /\ phase' = "aborted"
    /\ UNCHANGED <<settings, app, cors_origins, db, http>>

\* Variant of StartupExcept: the handler retries the initialization.
StartupExceptRetry ==
    /\ lpc = "except_create"
    /\ lpc' = "start"
    /\ UNCHANGED <<settings, phase, app, cors_origins, db, http>>

\* except Exception as e: logger.error(...); logger.warning(...)
StartupExcept ==
    /\ lpc = "except_create"
    /\ lpc' = "at_yield"
    /\ UNCHANGED <<settings, phase, app, cors_origins, db, http>>

\* Variant of LifespanYield: the yield does not wait for the initialization.
LifespanYieldEarly ==
    /\ lpc \in {"start", "awaiting_create", "at_yield"}
    /\ lpc' = "yielded"
    /\ phase' = "serving"
    /\ UNCHANGED <<settings, app, cors_origins, db, http>>

\* yield: startup is complete, the server starts accepting requests
LifespanYield ==
    /\ lpc = "at_yield"
    /\ lpc' = "yielded"
    /\ phase' = "serving"
    /\ UNCHANGED <<settings, app, cors_origins, db, http>>

(***************************************************************************)
(* Request serving, between the yield and the shutdown of the server.      *)
(***************************************************************************)
RemoveAt(seq, i) == SubSeq(seq, 1, i - 1) \o SubSeq(seq, i + 1, Len(seq))

\* The server accepts a request while it is serving.
AcceptRequest ==
    /\ phase = "serving"
    /\ accepted < MaxRequests
    /\ Len(inflight) < MaxInFlight
    /\ \E req \in Requests : inflight' = Append(inflight, req)
    /\ accepted' = accepted + 1
    /\ UNCHANGED <<settings, phase, app, cors_origins, lpc, db, handled,
                   clock, lastResponse>>

\* An accepted request runs through the middleware and its handler.
HandleRequest ==
    /\ phase \in {"serving", "draining"}
    /\ \E i \in 1..Len(inflight) :
          /\ lastResponse' = Respond(app, inflight[i], clock)
          /\ inflight' = RemoveAt(inflight, i)
    /\ handled' = handled + 1
    /\ clock' = clock + 1
    /\ UNCHANGED <<settings, phase, app, cors_origins, lpc, db, accepted>>

\* The server is told to stop: it stops accepting new requests.
ShutdownSignal ==
    /\ phase = "serving"
    /\ phase' = "draining"
    /\ UNCHANGED <<settings, app, cors_origins, lpc, db, http>>

(***************************************************************************)
(* lifespan, after the yield (lines 59-65).                                *)
(***************************************************************************)
\* In-flight requests have drained; the server leaves the lifespan context.
LifespanResume ==
    /\ phase = "draining"
    /\ inflight = <<>>
    /\ lpc = "yielded"
    /\ phase' = "shutdown"
    /\ lpc' = "resumed"
    /\ UNCHANGED <<settings, app, cors_origins, db, http>>

\* Variant of CloseDbCall: close_db is called while the server is serving.
CloseDbCallEarly ==
    /\ lpc = "yielded"
    /\ phase = "serving"
    /\ closeCalls < MaxCalls
    /\ lpc' = "awaiting_close"
    /\ dbClose' = "pending"
    /\ closeCalls' = closeCalls + 1
    /\ UNCHANGED <<settings, phase, app, cors_origins, dbInit, handle,
                   createCalls, http>>

\* try: await close_db()      (the call is made)
CloseDbCall ==
    /\ lpc = "resumed"
    /\ closeCalls < MaxCalls
    /\ lpc' = "awaiting_close"
    /\ dbClose' = "pending"
    /\ closeCalls' = closeCalls + 1
    /\ UNCHANGED <<settings, phase, app, cors_origins, dbInit, handle,
                   createCalls, http>>

\* close_db() returns: the handle, if there is one, is released
CloseDbReturn ==
    /\ lpc = "awaiting_close"
    /\ dbClose' = "ok"
    /\ handle' = close_db(handle)
    /\ lpc' = "done"
    /\ UNCHANGED <<settings, phase, app, cors_origins, dbInit, createCalls,
                   closeCalls, http>>

\* close_db() raises: the handle may or may not have been released
CloseDbRaise ==
    /\ lpc = "awaiting_close"
    /\ dbClose' = "failed"
    /\ handle' \in {handle, close_db(handle)}
    /\ lpc' = "except_close"
    /\ UNCHANGED <<settings, phase, app, cors_origins, dbInit, createCalls,
                   closeCalls, http>>

\* Variant of ShutdownExcept: the handler retries close_db.
ShutdownExceptRetry ==
    /\ lpc = "except_close"
    /\ lpc' = "resumed"
    /\ UNCHANGED <<settings, phase, app, cors_origins, db, http>>

\* except Exception as e: logger.error(...)
ShutdownExcept ==
    /\ lpc = "except_close"
    /\ lpc' = "done"
    /\ UNCHANGED <<settings, phase, app, cors_origins, db, http>>

\* The lifespan coroutine has finished; the server process exits.
ProcessExit ==
    /\ phase = "shutdown"
    /\ lpc = "done"
    /\ phase' = "exited"
    /\ UNCHANGED <<settings, app, cors_origins, lpc, db, http>>

(***************************************************************************)
(* Specifications.                                                         *)
(***************************************************************************)
Next ==
    \/ ConstructApp
    \/ AddCORSMiddleware
    \/ ImportRoutes
    \/ IncludeAuthRouter
    \/ IncludeTasksRouter
    \/ RouteLoadError
    \/ ServerStartup
    \/ CreateDbCall
    \/ CreateDbReturn
    \/ CreateDbRaise
    \/ StartupExcept
    \/ LifespanYield
    \/ AcceptRequest
    \/ HandleRequest
    \/ ShutdownSignal
    \/ LifespanResume
    \/ CloseDbCall
    \/ CloseDbReturn
    \/ CloseDbRaise
    \/ ShutdownExcept
    \/ ProcessExit

Spec == Init /\ [][Next]_vars

\* The event loop runs every coroutine step that is ready; when the server
\* is told to stop is up to its environment, and so is request arrival.
Fairness ==
    /\ WF_vars(ConstructApp)
    /\ WF_vars(AddCORSMiddleware)
    /\ WF_vars(ImportRoutes)
    /\ WF_vars(IncludeAuthRouter)
    /\ WF_vars(IncludeTasksRouter)
    /\ WF_vars(RouteLoadError)
    /\ WF_vars(ServerStartup)
    /\ WF_vars(CreateDbCall)
    /\ WF_vars(CreateDbReturn \/ CreateDbRaise)
    /\ WF_vars(StartupExcept)
    /\ WF_vars(LifespanYield)
    /\ WF_vars(HandleRequest)
    /\ WF_vars(LifespanResume)
    /\ WF_vars(CloseDbCall)
    /\ WF_vars(CloseDbReturn \/ CloseDbRaise)
    /\ WF_vars(ShutdownExcept)
    /\ WF_vars(ProcessExit)

FairSpec == Spec /\ Fairness

(***************************************************************************)
(* Properties.                                                             *)
(***************************************************************************)
ProcessEnded == phase \in {"exited", "aborted"}

AcceptingOrAnswering ==
    phase \in {"serving", "draining"} \/ accepted > 0 \/ Len(inflight) > 0

IsGet(resp, path) ==
    resp.request.method = "GET" /\ resp.request.path = path

IsPreflight(resp) ==
    resp.request.method = "OPTIONS" /\ resp.request.acrm # NoHeader

ConfiguredOrigins == Elems(get_cors_origins_list(settings))

Has(resp, h) == h \in DOMAIN resp.headers

\* The preflight response permits the request of an allowed origin: the
\* origin, the requested method, the requested headers, and credentials.
PermitsAll(resp) ==
    /\ Has(resp, "Access-Control-Allow-Origin")
    /\ resp.headers["Access-Control-Allow-Origin"] = resp.request.origin
    /\ Has(resp, "Access-Control-Allow-Methods")
    /\ ALL_METHODS \subseteq resp.headers["Access-Control-Allow-Methods"]
    /\ resp.request.acrh # NoHeader =>
          /\ Has(resp, "Access-Control-Allow-Headers")
          /\ resp.headers["Access-Control-Allow-Headers"] = resp.request.acrh
    /\ Has(resp, "Access-Control-Allow-Credentials")
    /\ resp.headers["Access-Control-Allow-Credentials"] = "true"

\* The response has no Access-Control-Allow-Origin that matches the origin.
NoMatchingAllowOrigin(resp) ==
    Has(resp, "Access-Control-Allow-Origin") =>
        resp.headers["Access-Control-Allow-Origin"]
            \notin {resp.request.origin, "*"}

\* C1: when create_db_and_tables raises during startup the error is
\* swallowed: the process never aborts because of it, and from the failed
\* startup it goes on to the request-serving state.
C1_DbInitFailureStillServes ==
    /\ [](dbInit = "failed" => phase # "aborted")
    /\ (dbInit = "failed" /\ phase = "startup") ~> (phase = "serving")

C1_Witness ==
    dbInit = "failed" /\ phase = "serving" /\ Len(inflight) = 1

\* C2: a failure of importing or mounting either router aborts startup (the
\* error handler re-raises), and the process never serves requests with
\* fewer than both routers mounted.
C2_NoPartialApi ==
    /\ [](AcceptingOrAnswering => app.routers = {"/api/auth", "/api/tasks"})
    /\ [][phase = "route_error" => phase' = "aborted"]_vars

C2_Witness ==
    phase = "aborted" /\ app.routers = {"/api/auth"}

\* C3: no request is accepted or handled while the create_db_and_tables
\* attempt of lifespan has not started or is still pending.
C3_StartupBeforeFirstRequest ==
    AcceptingOrAnswering => dbInit \in {"ok", "failed"} /\ lpc # "start"

C3_Witness ==
    dbInit = "ok" /\ phase = "serving" /\ accepted = 1 /\ handled = 0

\* C4 (as stated): in every process lifetime close_db has been invoked
\* exactly once when the process has ended.
C4_Original_ExactlyOncePerLifetime ==
    ProcessEnded => closeCalls = 1

\* C4 (amended): close_db is never invoked more than once; a process that
\* started up (its lifespan was entered) has invoked it exactly once when it
\* has ended; and once close_db has been invoked the process reaches the
\* exited state whether close_db returns or raises.
C4_ShutdownHookOnceAndExit ==
    /\ [](closeCalls <= 1)
    /\ [](ProcessEnded /\ lpc # "idle" => closeCalls = 1)
    /\ (dbClose = "pending") ~> (phase = "exited")

C4_Witness ==
    phase = "exited" /\ dbClose = "failed" /\ closeCalls = 1

\* C5: GET /health and GET / answer 200 with status "healthy" whatever the
\* state of the database initialization, of close_db and of the handle.
C5_LivenessEndpointsAlwaysHealthy ==
    IsGet(lastResponse, "/") \/ IsGet(lastResponse, "/health") =>
        /\ lastResponse.status = 200
        /\ lastResponse.body.status = "healthy"

C5_Witness ==
    dbInit = "failed" /\ handle = "none" /\ IsGet(lastResponse, "/health")
        /\ lastResponse.status = 200

\* C6: GET / reports the configured application name, version and origin
\* list; GET /health reports status and timestamp and nothing else.
C6_RootReportsConfiguration ==
    /\ IsGet(lastResponse, "/") =>
          /\ lastResponse.body.app_name = settings.APP_NAME
          /\ lastResponse.body.version = settings.APP_VERSION
          /\ lastResponse.body.cors_origins = get_cors_origins_list(settings)
    /\ IsGet(lastResponse, "/health") =>
          DOMAIN lastResponse.body = {"status", "timestamp"}

C6_Witness ==
    IsGet(lastResponse, "/") /\ settings.APP_NAME = "Todo"
        /\ settings.APP_VERSION = "2.0.0"
        /\ Len(settings.CORS_ORIGINS) = 2

\* C7 (as stated): a preflight from an origin in the configured list is
\* permitted all methods, all headers and credentials; a preflight from an
\* origin not in the list gets no matching Access-Control-Allow-Origin.
C7_Original_PreflightByListMembership ==
    IsPreflight(lastResponse) =>
        IF lastResponse.request.origin \in ConfiguredOrigins
        THEN PermitsAll(lastResponse)
        ELSE NoMatchingAllowOrigin(lastResponse)

\* C7 (amended): a preflight from an origin in the configured list, or from
\* any origin when the list contains the wildcard "*", is permitted all
\* methods, all headers and credentials; a preflight from an origin not in
\* a list without the wildcard gets no matching Access-Control-Allow-Origin.
C7_PreflightByListOrWildcard ==
    IsPreflight(lastResponse) =>
        IF \/ lastResponse.request.origin \in ConfiguredOrigins
           \/ "*" \in ConfiguredOrigins
        THEN PermitsAll(lastResponse)
        ELSE NoMatchingAllowOrigin(lastResponse)

C7_Witness ==
    /\ IsPreflight(lastResponse)
    /\ lastResponse.request.origin = "http://evil"
    /\ ConfiguredOrigins = {"*"}
    /\ lastResponse.status = 200

\* C8: once close_db has been invoked, no request is accepted or handled.
C8_NoRequestAfterCloseDb ==
    [][closeCalls >= 1 => accepted' = accepted /\ handled' = handled]_vars

C8_Witness ==
    closeCalls = 1 /\ dbClose = "pending" /\ handled = MaxRequests

\* C9: create_db_and_tables and close_db are each invoked at most once,
\* close_db never before the create_db_and_tables attempt has finished, and
\* the handle is open from a successful initialization until close_db.
C9_HandleCreatedOnceReleasedOnce ==
    /\ createCalls <= 1
    /\ closeCalls <= 1
    /\ closeCalls >= 1 => dbInit \in {"ok", "failed"}
    /\ handle = "open" => dbInit = "ok" /\ dbClose # "ok"
    /\ dbInit = "ok" /\ closeCalls = 0 => handle = "open"
    /\ dbInit # "ok" => handle = "none"

C9_Witness ==
    dbInit = "ok" /\ dbClose = "ok" /\ handle = "closed" /\ phase = "exited"

====
